---------------------------- MODULE Spec2Model ----------------------------
(***************************************************************************)
(* Model of the LLM client wrapper (src/utils/llm_utils.py) and of the     *)
(* indicator plots (src/utils/visualizations.py).                          *)
(*                                                                         *)
(* Three specifications share the module:                                  *)
(*   SpecWrapper   calls of initialize_llm and of get_llm_response         *)
(*   SpecCache     calls of get_llm_response that share the cache          *)
(*   SpecViz       calls of plot_rsi, plot_bollinger_bands, plot_macd and  *)
(*                 plot_pe_ratios                                          *)
(* The variables pc, attempt, last_error, max_retries, sleeps,             *)
(* invocations and result are the locals and observable effects of the     *)
(* call in progress, whichever function it is a call of.                   *)
(***************************************************************************)
EXTENDS Integers, Sequences, FiniteSets, TLC

VARIABLES
    STREAMLIT_AVAILABLE, \* module flag set by the import at load time
    cache,               \* entries of st.cache_data: [key, value]
    served,              \* prompts answered with content within the cache horizon
    calls,               \* number of get_llm_response calls made so far
    fn,                  \* the function of the call in progress
    pc,                  \* position of the call in progress
    llm,                 \* argument: the client
    prompt,              \* argument: the prompt
    api_key,             \* argument of initialize_llm
    max_retries,         \* argument
    retry_delay,         \* argument of get_llm_response
    attempt,             \* loop variable of the retry loop
    last_error,          \* local last_error
    last_outcome,        \* what the latest client call did
    sleeps,              \* the time.sleep calls of this call, in order
    invocations,         \* number of llm.invoke calls of this call
    constructions,       \* number of ChatOpenAI(...) constructions of this call
    result,              \* how the call ended
    viz                  \* the latest plot call: its input, what it did, its result

vars == <<STREAMLIT_AVAILABLE, cache, served, calls, fn, pc, llm, prompt,
          api_key, max_retries, retry_delay, attempt, last_error, last_outcome, sleeps,
          invocations, constructions, result, viz>>

llmVars == <<STREAMLIT_AVAILABLE, cache, served, calls, fn, pc, llm, prompt,
             api_key, max_retries, retry_delay, attempt, last_error, last_outcome, sleeps,
             invocations, constructions, result>>

----------------------------------------------------------------------------
(* Bounds *)

MaxRetriesBound == 4      \* largest max_retries tried
MaxRetryDelay == 2        \* largest retry_delay tried
MaxCalls == 2             \* calls per behaviour

\* def get_llm_response(llm, prompt, max_retries=3, retry_delay=2)
DefaultMaxRetries == 3
DefaultRetryDelay == 2

Clients == {"llmA", "llmB"}
Prompts == {"p1", "p2"}
RetryCounts == (-1) .. MaxRetriesBound
RetryDelays == 0 .. MaxRetryDelay

NoResult == [kind |-> "running", value |-> "None"]

----------------------------------------------------------------------------
(* The retry arithmetic of both loops *)

\* a loop that takes the last attempt for one that may still be retried
AttemptsRemain_OffByOne(k, mr) == k < mr

\* `attempt < max_retries - 1`
AttemptsRemain(k, mr) == k < mr - 1

\* a delay computed from the attempt index as it is
TransientDelay_FromZero(rd, k) == rd * k

\* a delay that doubles with every attempt
TransientDelay_Exponential(rd, k) == rd * (2 ^ k)

\* time.sleep(retry_delay * (attempt + 1))
TransientDelay(rd, k) == rd * (k + 1)

\* a rate-limit delay no longer than the delay of a transient error
RateLimitDelay_NotDoubled(rd, k) == rd * (k + 1)

\* time.sleep(retry_delay * (attempt + 1) * 2)
RateLimitDelay(rd, k) == rd * (k + 1) * 2

\* time.sleep(2 * (attempt + 1))
InitDelay(k) == 2 * (k + 1)

\* for attempt in range(max_retries): the position after an iteration that
\* neither returned nor raised
LoopContinues(k, mr) == k + 1 < mr

TransientError == "APIConnectionError or APITimeoutError"

Sleep(k, d, why) == [attempt |-> k, delay |-> d, cause |-> why]

\* response.content of the reply a client gives to a prompt
Content(l, p) == <<"content", l, p>>

----------------------------------------------------------------------------
(* st.cache_data, or its stand-in *)

\* The key of a call: st.cache_data hashes every argument whose name does not
\* start with an underscore, and the signature has none that does.
CacheKey(l, p, mr, rd) ==
    [llm |-> l, prompt |-> p, max_retries |-> mr, retry_delay |-> rd]

CacheHit(k) == STREAMLIT_AVAILABLE /\ \E e \in cache : e.key = k

CacheValue(k) == (CHOOSE e \in cache : e.key = k).value

\* The decorator stores what the function returns; the stand-in stores nothing.
CacheStore(k, v) ==
    IF STREAMLIT_AVAILABLE THEN cache \cup {[key |-> k, value |-> v]} ELSE cache

----------------------------------------------------------------------------
(* get_llm_response *)

\* The call: the cache lookup of the decorator, then the function's entry.
get_llm_response(l, p, mr, rd) ==
    /\ pc \in {"idle", "done"}
    /\ calls < MaxCalls
    /\ calls' = calls + 1
    /\ fn' = "get_llm_response"
    /\ llm' = l
    /\ prompt' = p
    /\ max_retries' = mr
    /\ retry_delay' = rd
    /\ attempt' = 0
    /\ last_error' = "None"
    /\ last_outcome' = "none"
    /\ sleeps' = <<>>
    /\ invocations' = 0
    /\ constructions' = 0
    /\ IF CacheHit(CacheKey(l, p, mr, rd))
         THEN /\ pc' = "done"
              /\ result' = [kind |-> "content",
                            value |-> CacheValue(CacheKey(l, p, mr, rd))]
         ELSE IF 0 < mr
           THEN /\ pc' = "invoke"
                /\ result' = NoResult
           ELSE /\ pc' = "done"
                /\ result' = [kind |-> "ConnectionError", value |-> "None"]
    /\ UNCHANGED <<STREAMLIT_AVAILABLE, cache, served, api_key, viz>>

\* The end of an iteration that slept: the next iteration, or the statement
\* after the loop.
NextIteration ==
    /\ attempt' = attempt + 1
    /\ IF LoopContinues(attempt, max_retries)
         THEN /\ pc' = pc
              /\ result' = NoResult
         ELSE /\ pc' = "done"
              /\ result' = [kind |-> "ConnectionError", value |-> "None"]

\* llm.invoke(prompt) answers: return response.content
invoke_ok ==
    /\ fn = "get_llm_response"
    /\ pc = "invoke"
    /\ invocations' = invocations + 1
    /\ last_outcome' = "ok"
    /\ pc' = "done"
    /\ result' = [kind |-> "content", value |-> Content(llm, prompt)]
    /\ cache' = CacheStore(CacheKey(llm, prompt, max_retries, retry_delay),
                           Content(llm, prompt))
    /\ served' = served \cup {prompt}
    /\ UNCHANGED <<STREAMLIT_AVAILABLE, calls, fn, llm, prompt, api_key, max_retries,
                   retry_delay, attempt, last_error, sleeps, constructions, viz>>

\* llm.invoke(prompt) raises APIConnectionError or APITimeoutError: one
\* except clause handles both
invoke_transient ==
    /\ fn = "get_llm_response"
    /\ pc = "invoke"
    /\ invocations' = invocations + 1
    /\ last_outcome' = "transient"
    /\ last_error' = TransientError
    /\ IF AttemptsRemain(attempt, max_retries)
         THEN /\ sleeps' = Append(sleeps,
                    Sleep(attempt, TransientDelay(retry_delay, attempt), "transient"))
              /\ NextIteration
         ELSE /\ sleeps' = sleeps
              /\ attempt' = attempt
              /\ pc' = "done"
              /\ result' = [kind |-> "RequestsConnectionError",
                            value |-> TransientError]
    /\ UNCHANGED <<STREAMLIT_AVAILABLE, cache, served, calls, fn, llm, prompt, api_key,
                   max_retries, retry_delay, constructions, viz>>

\* llm.invoke(prompt) raises another APIError; rate_limit says whether
\* "rate_limit" occurs in the lower-cased message
invoke_api_error(rate_limit) ==
    /\ fn = "get_llm_response"
    /\ pc = "invoke"
    /\ invocations' = invocations + 1
    /\ last_outcome' = IF rate_limit THEN "rate_limit" ELSE "api_error"
    /\ IF rate_limit /\ AttemptsRemain(attempt, max_retries)
         THEN /\ sleeps' = Append(sleeps,
                    Sleep(attempt, RateLimitDelay(retry_delay, attempt), "rate_limit"))
              /\ NextIteration
         ELSE /\ sleeps' = sleeps
              /\ attempt' = attempt
              /\ pc' = "done"
              /\ result' = [kind |-> "ValueError", value |-> "APIError"]
    /\ UNCHANGED <<STREAMLIT_AVAILABLE, cache, served, calls, fn, llm, prompt, api_key,
                   max_retries, retry_delay, last_error, constructions, viz>>

\* llm.invoke(prompt) raises an exception no handler names: it propagates
invoke_other ==
    /\ fn = "get_llm_response"
    /\ pc = "invoke"
    /\ invocations' = invocations + 1
    /\ last_outcome' = "other"
    /\ pc' = "done"
    /\ result' = [kind |-> "Exception", value |-> "other"]
    /\ UNCHANGED <<STREAMLIT_AVAILABLE, cache, served, calls, fn, llm, prompt, api_key,
                   max_retries, retry_delay, attempt, last_error, sleeps,
                   constructions, viz>>

\* ttl=86400 elapses between two calls: the entries expire
cache_expire ==
    /\ pc \in {"idle", "done"}
    /\ served # {}
    /\ cache' = {}
    /\ served' = {}
    /\ UNCHANGED <<STREAMLIT_AVAILABLE, calls, fn, pc, llm, prompt, api_key, max_retries,
                   retry_delay, attempt, last_error, last_outcome, sleeps,
                   invocations, constructions, result, viz>>

----------------------------------------------------------------------------
(* initialize_llm *)

\* The API keys tried: absent, empty, and two that are not empty.
ApiKeys == {"None", "", "sk-good", "sk-bad"}

\* What a client call can raise, by the except clause that names it.
Raised == {"transient", "api_error", "other"}

\* a test for the absent key alone
Falsy_NoneOnly(key) == key = "None"

\* `not api_key`
Falsy(key) == key \in {"None", ""}

\* The call, up to the first construction of the client.  The function
\* reads and writes nothing get_llm_response does, so the calls of it are
\* explored before the first response is asked for.
initialize_llm(key, mr) ==
    /\ pc \in {"idle", "done"}
    /\ calls = 0
    /\ fn' = "initialize_llm"
    /\ api_key' = key
    /\ max_retries' = mr
    /\ attempt' = 0
    /\ last_error' = "None"
    /\ last_outcome' = "none"
    /\ sleeps' = <<>>
    /\ invocations' = 0
    /\ constructions' = 0
    /\ IF Falsy(key)
         THEN /\ pc' = "done"
              /\ result' = [kind |-> "ValueError", value |-> "API key is required"]
         ELSE IF 0 < mr
           THEN /\ pc' = "construct"
                /\ result' = NoResult
           ELSE /\ pc' = "done"
                /\ result' = [kind |-> "ConnectionError", value |-> "None"]
    /\ UNCHANGED <<STREAMLIT_AVAILABLE, cache, served, calls, llm, prompt,
                   retry_delay, viz>>

\* The handlers of the outer try for an exception e raised in its body.
HandleInitError(e) ==
    IF e = "transient"
      THEN /\ last_error' = TransientError
           /\ IF AttemptsRemain(attempt, max_retries)
                THEN /\ sleeps' = Append(sleeps,
                           Sleep(attempt, InitDelay(attempt), "transient"))
                     /\ attempt' = attempt + 1
                     /\ IF LoopContinues(attempt, max_retries)
                          THEN /\ pc' = "construct"
                               /\ result' = NoResult
                          ELSE /\ pc' = "done"
                               /\ result' = [kind |-> "ConnectionError",
                                             value |-> "None"]
                ELSE /\ sleeps' = sleeps
                     /\ attempt' = attempt
                     /\ pc' = "done"
                     /\ result' = [kind |-> "RequestsConnectionError",
                                   value |-> TransientError]
      ELSE /\ UNCHANGED <<last_error, sleeps, attempt>>
           /\ pc' = "done"
           /\ result' = IF e = "api_error"
                          THEN [kind |-> "ValueError", value |-> "APIError"]
                          ELSE [kind |-> "Exception", value |-> "other"]

\* llm = ChatOpenAI(model="gpt-4o", temperature=0, api_key=api_key, timeout=30.0)
construct_ok ==
    /\ fn = "initialize_llm"
    /\ pc = "construct"
    /\ constructions' = constructions + 1
    /\ last_outcome' = "construct:ok"
    /\ pc' = "test"
    /\ UNCHANGED <<STREAMLIT_AVAILABLE, cache, served, calls, fn, llm, prompt,
                   api_key, max_retries, retry_delay, attempt, last_error, sleeps,
                   invocations, result, viz>>

\* the constructor raises
construct_raises(e) ==
    /\ fn = "initialize_llm"
    /\ pc = "construct"
    /\ constructions' = constructions + 1
    /\ last_outcome' = IF e = "transient" THEN "construct:transient"
                       ELSE IF e = "api_error" THEN "construct:api_error"
                       ELSE "construct:other"
    /\ HandleInitError(e)
    /\ UNCHANGED <<STREAMLIT_AVAILABLE, cache, served, calls, fn, llm, prompt,
                   api_key, max_retries, retry_delay, invocations, viz>>

\* except Exception: pass, around llm.invoke("test")
SwallowedByTest(e) == e \in Raised

\* return llm
ReturnClient ==
    /\ pc' = "done"
    /\ result' = [kind |-> "llm", value |-> api_key]
    /\ UNCHANGED <<last_error, sleeps, attempt>>

\* llm.invoke("test") answers; the response is dropped
test_invoke_ok ==
    /\ fn = "initialize_llm"
    /\ pc = "test"
    /\ invocations' = invocations + 1
    /\ last_outcome' = "test:ok"
    /\ ReturnClient
    /\ UNCHANGED <<STREAMLIT_AVAILABLE, cache, served, calls, fn, llm, prompt,
                   api_key, max_retries, retry_delay, constructions, viz>>

\* llm.invoke("test") raises
test_invoke_raises(e) ==
    /\ fn = "initialize_llm"
    /\ pc = "test"
    /\ invocations' = invocations + 1
    /\ last_outcome' = IF e = "transient" THEN "test:transient"
                       ELSE IF e = "api_error" THEN "test:api_error"
                       ELSE "test:other"
    /\ IF SwallowedByTest(e) THEN ReturnClient ELSE HandleInitError(e)
    /\ UNCHANGED <<STREAMLIT_AVAILABLE, cache, served, calls, fn, llm, prompt,
                   api_key, max_retries, retry_delay, constructions, viz>>

----------------------------------------------------------------------------
(* The indicator plots *)

MaxRows == 27             \* longest price series tried
MaxEps == 3               \* largest |eps| tried

RSI_WINDOW == 14          \* plot_rsi: window = 14
BOLLINGER_WINDOW == 20    \* plot_bollinger_bands: window = 20
MACD_MIN_ROWS == 26       \* plot_macd: len(data) < 26

Shapes == {"flat", "rising", "falling", "zigzag"}

\* A DataFrame: whether it has a Close column, its number of rows and the
\* shape of its closing prices.
Frames == [has_close : BOOLEAN, rows : 0 .. MaxRows, shape : Shapes]

\* eps: None, or a number
NoneEps == [is_none |-> TRUE, number |-> 0]
Number(x) == [is_none |-> FALSE, number |-> x]
EpsValues == {NoneEps} \cup {Number(x) : x \in (-MaxEps) .. MaxEps}

\* data['Close'] at row i (rows are numbered from 1): the series tried stay
\* at 150, rise or fall from it, or alternate above it
Close(data, i) ==
    CASE data.shape = "flat"    -> 150
      [] data.shape = "rising"  -> 150 + i
      [] data.shape = "falling" -> 150 - i
      [] data.shape = "zigzag"  -> 150 + 3 * (i % 2)

Abs(x) == IF x < 0 THEN -x ELSE x

RECURSIVE Gcd(_, _)
Gcd(a, b) == IF b = 0 THEN a ELSE Gcd(b, a % b)

\* The quotient n / d of two numbers, d # 0, as a fraction in lowest terms
Quotient(n, d) ==
    LET g == Gcd(Abs(n), Abs(d))
        sign == IF d < 0 THEN -1 ELSE 1
    IN  [num |-> sign * (n \div g), den |-> sign * (d \div g)]

RECURSIVE SumOver(_, _, _, _)
\* series(lo) + ... + series(hi), series given by row
SumOver(data, which, lo, hi) ==
    IF hi < lo THEN 0
    ELSE LET delta == IF hi = 1 THEN 0 ELSE Close(data, hi) - Close(data, hi - 1)
             term == IF which = "gain"
                       THEN (IF delta > 0 THEN delta ELSE 0)
                       ELSE (IF delta < 0 THEN -delta ELSE 0)
         IN  term + SumOver(data, which, lo, hi - 1)

\* rolling(window).mean() of the gains (or losses) at row i, times window;
\* the first delta is NaN, which `where` replaces by 0
RollingSum(data, which, window, i) == SumOver(data, which, i - window + 1, i)

\* the rows where a rolling window of the series is full
FullWindows(data, window) == {i \in 1 .. data.rows : i >= window}

\* rsi.dropna(): gain / loss is NaN where both are 0, infinite where only
\* the loss is, and 100 - 100 / (1 + rs) = 100 * gain / (gain + loss) elsewhere
RsiRows(data, window) ==
    {i \in FullWindows(data, window) :
        RollingSum(data, "gain", window, i) + RollingSum(data, "loss", window, i) > 0}

Rsi(data, window, i) ==
    Quotient(100 * RollingSum(data, "gain", window, i),
             RollingSum(data, "gain", window, i) + RollingSum(data, "loss", window, i))

\* a length check that also rejects a series of exactly the window
TooShort_Inclusive(data, window) == data.rows <= window

\* `len(data) < window`
TooShort(data, window) == data.rows < window

\* a test for the absent eps alone
NoEarnings_NoneOnly(eps) == eps.is_none

\* `eps is None or eps == 0`
NoEarnings(eps) == eps.is_none \/ eps.number = 0

Failure(what) == [kind |-> "ValueError", value |-> what]
Figure(series) == [kind |-> "figure", value |-> series]

Plot(name, data, eps, didCompute, res) ==
    [fn |-> name, data |-> data, eps |-> eps, computed |-> didCompute, result |-> res]

\* the arguments of a plot that has not been called yet
Pending(data, eps) == Plot("none", data, eps, FALSE, [kind |-> "pending", value |-> <<>>])

plot_rsi(data) ==
    /\ viz.fn = "none"
    /\ viz' =
         IF ~data.has_close
           THEN Plot("plot_rsi", data, NoneEps, FALSE, Failure("Missing 'Close' column"))
         ELSE IF TooShort(data, RSI_WINDOW)
           THEN Plot("plot_rsi", data, NoneEps, FALSE, Failure("Not enough data points"))
         ELSE IF RsiRows(data, RSI_WINDOW) = {}
           THEN Plot("plot_rsi", data, NoneEps, TRUE, Failure("no valid data points"))
         ELSE Plot("plot_rsi", data, NoneEps, TRUE,
                   Figure([i \in RsiRows(data, RSI_WINDOW) |-> Rsi(data, RSI_WINDOW, i)]))
    /\ UNCHANGED llmVars

plot_bollinger_bands(data) ==
    /\ viz.fn = "none"
    /\ viz' =
         IF ~data.has_close
           THEN Plot("plot_bollinger_bands", data, NoneEps, FALSE,
                     Failure("Missing 'Close' column"))
         ELSE IF TooShort(data, BOLLINGER_WINDOW)
           THEN Plot("plot_bollinger_bands", data, NoneEps, FALSE,
                     Failure("Not enough data points"))
         ELSE IF FullWindows(data, BOLLINGER_WINDOW) = {}
           THEN Plot("plot_bollinger_bands", data, NoneEps, TRUE,
                     Failure("no valid data points"))
         ELSE Plot("plot_bollinger_bands", data, NoneEps, TRUE,
                   Figure([i \in FullWindows(data, BOLLINGER_WINDOW) |-> Close(data, i)]))
    /\ UNCHANGED llmVars

\* ewm(adjust=False) is defined from the first row on
plot_macd(data) ==
    /\ viz.fn = "none"
    /\ viz' =
         IF ~data.has_close
           THEN Plot("plot_macd", data, NoneEps, FALSE, Failure("Missing 'Close' column"))
         ELSE IF TooShort(data, MACD_MIN_ROWS)
           THEN Plot("plot_macd", data, NoneEps, FALSE, Failure("Not enough data points"))
         ELSE IF FullWindows(data, 1) = {}
           THEN Plot("plot_macd", data, NoneEps, TRUE, Failure("no valid data points"))
         ELSE Plot("plot_macd", data, NoneEps, TRUE,
                   Figure([i \in FullWindows(data, 1) |-> Close(data, i)]))
    /\ UNCHANGED llmVars

plot_pe_ratios(data, eps) ==
    /\ viz.fn = "none"
    /\ viz' =
         IF NoEarnings(eps)
           THEN Plot("plot_pe_ratios", data, eps, FALSE, [kind |-> "None", value |-> <<>>])
         ELSE IF ~data.has_close
           THEN Plot("plot_pe_ratios", data, eps, TRUE, [kind |-> "KeyError", value |-> "Close"])
         ELSE Plot("plot_pe_ratios", data, eps, TRUE,
                   Figure([i \in 1 .. data.rows |-> Quotient(Close(data, i), eps.number)]))
    /\ UNCHANGED llmVars

\* no plot asked for
NoViz == Pending([has_close |-> TRUE, rows |-> 0, shape |-> "flat"], NoneEps)

InitLocals ==
    /\ cache = {}
    /\ served = {}
    /\ calls = 0
    /\ fn = "none"
    /\ pc = "idle"
    /\ llm = "None"
    /\ prompt = "None"
    /\ api_key = "None"
    /\ max_retries = 0
    /\ retry_delay = 0
    /\ attempt = 0
    /\ last_error = "None"
    /\ last_outcome = "none"
    /\ sleeps = <<>>
    /\ invocations = 0
    /\ constructions = 0
    /\ result = NoResult

\* The import of streamlit succeeds or raises ImportError.
InitWrapper ==
    /\ STREAMLIT_AVAILABLE \in BOOLEAN
    /\ InitLocals
    /\ viz = NoViz

\* Calls of initialize_llm, and calls of get_llm_response with one client and
\* one prompt, over every max_retries and retry_delay.
NextWrapper ==
    \/ \E key \in ApiKeys, mr \in RetryCounts : initialize_llm(key, mr)
    \/ construct_ok
    \/ \E e \in Raised : construct_raises(e)
    \/ test_invoke_ok
    \/ \E e \in Raised : test_invoke_raises(e)
    \/ \E mr \in RetryCounts, rd \in RetryDelays :
          get_llm_response("llmA", "p1", mr, rd)
    \/ invoke_ok
    \/ invoke_transient
    \/ \E rate_limit \in BOOLEAN : invoke_api_error(rate_limit)
    \/ invoke_other
    \/ cache_expire

SpecWrapper == InitWrapper /\ [][NextWrapper]_vars

\* Calls of every client with every prompt, max_retries and retry_delay left
\* at their defaults.
NextCache ==
    \/ \E l \in Clients, p \in Prompts :
          get_llm_response(l, p, DefaultMaxRetries, DefaultRetryDelay)
    \/ invoke_ok
    \/ invoke_transient
    \/ \E rate_limit \in BOOLEAN : invoke_api_error(rate_limit)
    \/ invoke_other
    \/ cache_expire

SpecCache == InitWrapper /\ [][NextCache]_vars

\* The plots are functions of their arguments: a behaviour draws the
\* arguments and calls one plot with them.
InitViz ==
    /\ STREAMLIT_AVAILABLE = TRUE
    /\ InitLocals
    /\ \E data \in Frames, eps \in EpsValues : viz = Pending(data, eps)

NextViz ==
    \/ plot_rsi(viz.data)
    \/ plot_bollinger_bands(viz.data)
    \/ plot_macd(viz.data)
    \/ plot_pe_ratios(viz.data, viz.eps)

SpecViz == InitViz /\ [][NextViz]_vars

----------------------------------------------------------------------------
(* Properties of get_llm_response *)

Responding == fn = "get_llm_response"
Initializing == fn = "initialize_llm"

IsLast(i) == i = Len(sleeps)

TransientOnly == \A i \in 1 .. Len(sleeps) : sleeps[i].cause = "transient"

\* every invocation of the call so far raised a connection or timeout error
AllTransient ==
    /\ invocations >= 1
    /\ last_outcome = "transient"
    /\ TransientOnly

\* C1: a call of get_llm_response with max_retries = 3 whose every client
\* invocation raises a connection or timeout error invokes the client
\* exactly 3 times, ends with RequestsConnectionError, and sleeps
\* retry_delay * (k + 1) after the failed attempt k = 0, 1 and not after the
\* last one.
C1_ThreeAttemptsThenConnectionError ==
    (Responding /\ pc = "done" /\ max_retries = 3 /\ AllTransient) =>
        /\ invocations = 3
        /\ result.kind = "RequestsConnectionError"
        /\ Len(sleeps) = 2
        /\ \A k \in 0 .. 1 :
              /\ sleeps[k + 1].attempt = k
              /\ sleeps[k + 1].delay = retry_delay * (k + 1)

C1_Witness ==
    /\ Responding /\ pc = "done" /\ max_retries = 3 /\ AllTransient
    /\ retry_delay = 2
    /\ result.kind = "RequestsConnectionError"

\* C2: once a call of get_llm_response has returned content for a prompt,
\* no call with the same prompt within the cache horizon, through whichever
\* client, reaches llm.invoke: the prompt costs at most one network call.
C2_OneNetworkCallPerPrompt ==
    (STREAMLIT_AVAILABLE /\ Responding /\ pc = "invoke") => prompt \notin served

\* C5: in get_llm_response an APIError at attempt k that is a rate limit with
\* k < max_retries - 1 is followed by a sleep of retry_delay * (k + 1) * 2 and
\* another invocation; any other APIError ends the call at once with
\* ValueError.
C5_ApiErrorPolicy ==
    Responding =>
        /\ last_outcome = "api_error" =>
              /\ pc = "done"
              /\ result.kind = "ValueError"
              /\ invocations = attempt + 1
        /\ last_outcome = "rate_limit" =>
              IF pc = "done"
                THEN /\ result.kind = "ValueError"
                     /\ attempt = max_retries - 1
                     /\ invocations = attempt + 1
                ELSE /\ pc = "invoke"
                     /\ attempt < max_retries
                     /\ invocations = attempt
                     /\ sleeps # <<>>
                     /\ sleeps[Len(sleeps)] =
                          [attempt |-> attempt - 1,
                           delay |-> retry_delay * attempt * 2,
                           cause |-> "rate_limit"]

C5_Witness ==
    /\ Responding
    /\ pc = "invoke"
    /\ last_outcome = "rate_limit"
    /\ retry_delay = 2
    /\ attempt = 2
    /\ sleeps[Len(sleeps)].delay = 8

\* the delays grow by a constant factor greater than 1
Geometric(s) ==
    LET delays == {s[i].delay : i \in 1 .. Len(s)}
        terms == {1, 2} \cup {d \in delays : d > 0}
    IN  \E n \in terms, m \in terms :
           /\ n > m
           /\ \A i \in 1 .. Len(s) - 1 : s[i + 1].delay * m = s[i].delay * n

\* C6 as stated: the delays of the retries on transient errors form an
\* exponential backoff, each delay the previous one times a constant factor
\* greater than 1, for every max_retries.
C6_ExponentialBackoff == TransientOnly => Geometric(sleeps)

\* the factor of the backoff of the function in progress
BackoffUnit == IF Initializing THEN 2 ELSE retry_delay

\* C6 as amended: the backoff is linear.  The delay after the failed attempt
\* k is retry_delay * (k + 1) in get_llm_response and 2 * (k + 1) in
\* initialize_llm, so that successive delays differ by that constant unit.
C6_LinearBackoff ==
    /\ \A i \in 1 .. Len(sleeps) :
          /\ sleeps[i].attempt = i - 1
          /\ sleeps[i].cause = "transient" => sleeps[i].delay = BackoffUnit * i
    /\ \A i \in 1 .. Len(sleeps) - 1 :
          (sleeps[i].cause = "transient" /\ sleeps[i + 1].cause = "transient") =>
              sleeps[i + 1].delay - sleeps[i].delay = BackoffUnit

C6_Witness ==
    /\ Responding
    /\ TransientOnly
    /\ retry_delay = 2
    /\ Len(sleeps) >= 3
    /\ sleeps[3].delay = 6

\* C10: get_llm_response invokes the client at most max_retries times; with
\* max_retries >= 1 a call whose client answered, or raised a connection,
\* timeout or API error, ends inside the loop with content,
\* RequestsConnectionError or ValueError; the ConnectionError after the loop
\* is raised only with max_retries <= 0, the client never invoked.
C10_EndsInsideLoop ==
    Responding =>
        /\ invocations <= (IF max_retries > 0 THEN max_retries ELSE 0)
        /\ pc = "invoke" => (attempt < max_retries /\ invocations = attempt)
        /\ (pc = "done" /\ max_retries >= 1 /\ last_outcome # "other") =>
              result.kind \in {"content", "RequestsConnectionError", "ValueError"}
        /\ result.kind = "ConnectionError" => (max_retries <= 0 /\ invocations = 0)

C10_Witness ==
    /\ Responding
    /\ pc = "done"
    /\ max_retries >= 3
    /\ invocations = max_retries
    /\ last_outcome = "rate_limit"
    /\ result.kind = "ValueError"

----------------------------------------------------------------------------
(* Properties of initialize_llm *)

\* C3: in initialize_llm a connection or timeout error of llm.invoke("test")
\* takes the retry path: a sleep of 2 * (attempt + 1) and another attempt,
\* or, on the last attempt, RequestsConnectionError; no client is returned.
C3_TestInvocationRetried ==
    (Initializing /\ last_outcome = "test:transient") =>
        IF pc = "done"
          THEN /\ result.kind = "RequestsConnectionError"
               /\ attempt = max_retries - 1
          ELSE /\ pc = "construct"
               /\ sleeps # <<>>
               /\ sleeps[Len(sleeps)].delay = 2 * attempt

\* C4: in initialize_llm an API error that is not transient, raised by the
\* construction of the client or by the test invocation, ends the call on
\* that attempt with ValueError: no sleep, no retry, no client returned.
C4_ApiErrorNeverSwallowed ==
    (Initializing /\ last_outcome \in {"construct:api_error", "test:api_error"}) =>
        /\ pc = "done"
        /\ result.kind = "ValueError"

\* C9: initialize_llm with an empty or absent API key ends at once with
\* ValueError, whatever max_retries is: no client is constructed, the network
\* is not used, nothing sleeps and the loop is not entered.
C9_EmptyKeyFailsAtOnce ==
    (Initializing /\ api_key \in {"None", ""}) =>
        /\ pc = "done"
        /\ result.kind = "ValueError"
        /\ constructions = 0
        /\ invocations = 0
        /\ sleeps = <<>>
        /\ attempt = 0

C9_Witness ==
    /\ Initializing
    /\ api_key = ""
    /\ max_retries = 3
    /\ result.kind = "ValueError"

----------------------------------------------------------------------------
(* Properties of the plots *)

\* the minimum number of rows of an indicator
MinRows(name) ==
    CASE name = "plot_rsi" -> 14
      [] name = "plot_bollinger_bands" -> 20
      [] name = "plot_macd" -> 26

Indicators == {"plot_rsi", "plot_bollinger_bands", "plot_macd"}

RejectedAsShort ==
    /\ viz.result.kind = "ValueError"
    /\ viz.result.value = "Not enough data points"

\* C7: plot_rsi, plot_bollinger_bands and plot_macd, given a series with a
\* Close column and fewer rows than 14, 20 and 26, fail with the ValueError of
\* the length check before anything is computed or drawn; a series of exactly
\* that many rows passes the check.
C7_ShortSeriesRejected ==
    (viz.fn \in Indicators /\ viz.data.has_close) =>
        /\ viz.data.rows < MinRows(viz.fn) => (RejectedAsShort /\ ~viz.computed)
        /\ viz.data.rows >= MinRows(viz.fn) => (~RejectedAsShort /\ viz.computed)

C7_Witness ==
    /\ viz.fn = "plot_bollinger_bands"
    /\ viz.data.has_close
    /\ viz.data.rows = 19
    /\ RejectedAsShort

\* C8: plot_pe_ratios returns None, reading no prices, when eps is zero or
\* None; for any other eps and a series with a Close column it returns a
\* figure of close / eps for every row: 50 for a close of 150 and an eps of 3.
C8_PeRatio ==
    viz.fn = "plot_pe_ratios" =>
        IF viz.eps.is_none \/ viz.eps.number = 0
          THEN viz.result.kind = "None" /\ ~viz.computed
          ELSE viz.data.has_close =>
                 /\ viz.result.kind = "figure"
                 /\ DOMAIN viz.result.value = 1 .. viz.data.rows
                 /\ \A i \in 1 .. viz.data.rows :
                       /\ viz.result.value[i].den # 0
                       /\ viz.result.value[i].num * viz.eps.number =
                            Close(viz.data, i) * viz.result.value[i].den
                       /\ (Close(viz.data, i) = 150 /\ viz.eps.number = 3) =>
                            viz.result.value[i] = [num |-> 50, den |-> 1]

C8_Witness ==
    /\ viz.fn = "plot_pe_ratios"
    /\ viz.data.has_close
    /\ viz.data.shape = "flat"
    /\ viz.data.rows = 2
    /\ viz.eps = Number(3)
    /\ viz.result.kind = "figure"
    /\ viz.result.value[2] = [num |-> 50, den |-> 1]

=============================================================================
